---- MODULE Spec2Model ----
(***************************************************************************)
(* A model of Curriculum/[Lab0] Blockchain Tutorial.py: one node's         *)
(* Blockchain object (chain, current_transactions, nodes), its Flask       *)
(* handlers (mine, new_transaction, register_nodes, consensus) and the     *)
(* peers whose /chain responses resolve_conflicts reads.                   *)
(*                                                                         *)
(* Strings that are hashed are sequences of naturals ("characters").       *)
(* sha256 is modelled as a collision-free digest: the digest of a byte     *)
(* string is a leading character (a mix of the bytes, standing for the     *)
(* leading hex digits that valid_proof inspects) followed by the bytes.    *)
(***************************************************************************)
EXTENDS Integers, Sequences, FiniteSets, TLC

VARIABLES chain, current_transactions, nodes, served, result, threads, clock

vars == <<chain, current_transactions, nodes, served, result, threads, clock>>

(***************************************************************************)
(* Bounds of the model.                                                    *)
(***************************************************************************)
\* the mine handler is enabled while the local chain has fewer blocks
MaxChain == 3
\* new_transaction is enabled while the pending pool has fewer entries
MaxPool == 1
\* the same, for the node without peers of SpecLedger
MaxLedgerPool == 2
\* peers serve chains of at most MaxPeerLen blocks
MaxPeerLen == 2
\* stands for the 16^4 values of the four leading hex digits of a digest
Difficulty == 4

\* a node with peers mines while its clock has been read fewer times
MaxClock == 2
\* requests the threaded server is given
MaxThreads == 3
\* resolves that wait for their peers at one time, on the node with peers
MaxResolves == 1

\* proofs a peer may put in a block it serves (two solutions per puzzle)
Proofs == 0..(2 * Difficulty - 1)

(***************************************************************************)
(* Module-level values of the program.                                     *)
(***************************************************************************)
node_identifier == "self"

\* the first letter of an address, as it appears in a serialised block
ord(s) ==
    CASE s = "0" -> 0
      [] s = "a" -> 1
      [] s = "b" -> 2
      [] s = "self" -> 3
      [] s = "peer" -> 4

\* str(n) of a natural number: its decimal digits
RECURSIVE str(_)
str(n) == IF n < 10 THEN <<n>> ELSE str(n \div 10) \o <<n % 10>>

(***************************************************************************)
(* hashlib.sha256(...).hexdigest()                                         *)
(***************************************************************************)
RECURSIVE Mix(_, _)
Mix(h, s) ==
    IF s = <<>> THEN h
    ELSE Mix((3 * h + Head(s) + 1) % Difficulty, Tail(s))

sha256(bytes) == <<Mix(0, bytes)>> \o bytes

(***************************************************************************)
(* json.dumps(block, sort_keys=True): the keys in sorted order (index,     *)
(* previous_hash, proof, timestamp, transactions; amount, recipient,       *)
(* sender), strings and lists delimited (here: length-prefixed).           *)
(***************************************************************************)
RECURSIVE dumps_transactions(_)
dumps_transactions(txs) ==
    IF txs = <<>> THEN <<>>
    ELSE <<Head(txs).amount, ord(Head(txs).recipient), ord(Head(txs).sender)>>
         \o dumps_transactions(Tail(txs))

dumps(block) ==
    <<block.index, Len(block.previous_hash)>> \o block.previous_hash
    \o <<block.proof, block.timestamp, Len(block.transactions)>>
    \o dumps_transactions(block.transactions)

\* Blockchain.hash
hash(block) == sha256(dumps(block))

\* Blockchain.valid_proof: guess_hash[:4] == "0000"
valid_proof(last_proof, proof, last_hash) ==
    LET guess == str(last_proof) \o str(proof) \o last_hash
        guess_hash == sha256(guess)
    IN  Head(guess_hash) = 0

\* Blockchain.proof_of_work: the while loop, from candidate proof
RECURSIVE proof_search(_, _, _)
proof_search(last_proof, last_hash, proof) ==
    IF valid_proof(last_proof, proof, last_hash) THEN proof
    ELSE proof_search(last_proof, last_hash, proof + 1)

\* a search that returns its first candidate without testing it
proof_of_work_untested(last_block) == 0

\* a search that starts from candidate 1
proof_of_work_from_one(last_block) ==
    proof_search(last_block.proof, hash(last_block), 1)

proof_of_work(last_block) ==
    proof_search(last_block.proof, hash(last_block), 0)

(***************************************************************************)
(* The Blockchain object: self is [chain, current_transactions, nodes].    *)
(* Each method returns the object after the call (self) and its return     *)
(* value (ret).                                                            *)
(***************************************************************************)
\* Blockchain.last_block
last_block(self) == self.chain[Len(self.chain)]

\* a new_block that numbers blocks from 0
new_block_from_zero(self, proof, previous_hash, now) ==
    LET block == [index |-> Len(self.chain),
                  timestamp |-> now,
                  transactions |-> self.current_transactions,
                  proof |-> proof,
                  previous_hash |-> previous_hash]
    IN  [self |-> [self EXCEPT !.current_transactions = <<>>,
                               !.chain = Append(self.chain, block)],
         ret |-> block]

\* a new_block that forgets to reset the list of pending transactions
new_block_keeps_pool(self, proof, previous_hash, now) ==
    LET block == [index |-> Len(self.chain) + 1,
                  timestamp |-> now,
                  transactions |-> self.current_transactions,
                  proof |-> proof,
                  previous_hash |-> previous_hash]
    IN  [self |-> [self EXCEPT !.chain = Append(self.chain, block)],
         ret |-> block]

\* Blockchain.new_block; now is the value time() returns
new_block(self, proof, previous_hash, now) ==
    LET block == [index |-> Len(self.chain) + 1,
                  timestamp |-> now,
                  transactions |-> self.current_transactions,
                  proof |-> proof,
                  previous_hash |-> IF previous_hash # <<>> THEN previous_hash
                                    ELSE hash(last_block(self))]
    IN  [self |-> [self EXCEPT !.current_transactions = <<>>,
                               !.chain = Append(self.chain, block)],
         ret |-> block]

\* Blockchain.new_transaction
Blockchain_new_transaction(self, sender, recipient, amount) ==
    LET appended == [self EXCEPT !.current_transactions =
                        Append(self.current_transactions,
                               [sender |-> sender,
                                recipient |-> recipient,
                                amount |-> amount])]
    IN  [self |-> appended, ret |-> last_block(appended).index + 1]

\* Blockchain.__init__
Blockchain_init(now) ==
    new_block([chain |-> <<>>, current_transactions |-> <<>>, nodes |-> {}],
              100, <<1>>, now).self

(***************************************************************************)
(* Blockchain.valid_chain.  chain[0] raises IndexError on an empty list;   *)
(* otherwise the loop walks the pairs (last_block, chain[current_index]).  *)
(* current_index is the 0-based index of the code.                         *)
(***************************************************************************)
\* a loop that checks the proofs but not the previous_hash links
RECURSIVE valid_chain_loop_proofs_only(_, _, _)
valid_chain_loop_proofs_only(ch, last, current_index) ==
    IF ~(current_index < Len(ch)) THEN TRUE
    ELSE LET block == ch[current_index + 1]
         IN  IF ~valid_proof(last.proof, block.proof, hash(last))
             THEN FALSE
             ELSE valid_chain_loop_proofs_only(ch, block, current_index + 1)

RECURSIVE valid_chain_loop(_, _, _)
valid_chain_loop(ch, last, current_index) ==
    IF ~(current_index < Len(ch)) THEN TRUE
    ELSE LET block == ch[current_index + 1]
             last_block_hash == hash(last)
         IN  IF block.previous_hash # last_block_hash THEN FALSE
             ELSE IF ~valid_proof(last.proof, block.proof, last_block_hash)
                  THEN FALSE
                  ELSE valid_chain_loop(ch, block, current_index + 1)

valid_chain(ch) ==
    IF ch = <<>> THEN [exc |-> "IndexError", ret |-> FALSE]
    ELSE [exc |-> "none", ret |-> valid_chain_loop(ch, ch[1], 1)]

(***************************************************************************)
(* Blockchain.resolve_conflicts.  neighbours is the order in which the     *)
(* for loop visits self.nodes; responses[node] is what                     *)
(* requests.get(f'http://{node}/chain') meets: a refused connection raises *)
(* ConnectionError, otherwise a response with a status code and a body.    *)
(* The loop state is [max_length, new_chain, exc]; new_chain is            *)
(* [none |-> TRUE] for None.                                               *)
(***************************************************************************)
None == [none |-> TRUE, chain |-> <<>>]

resolve_visit(loop, response) ==
    IF loop.exc # "none" THEN loop
    ELSE IF ~response.reachable THEN [loop EXCEPT !.exc = "ConnectionError"]
    ELSE IF response.status_code # 200 THEN loop
    ELSE IF ~(response.length > loop.max_length) THEN loop
    ELSE LET v == valid_chain(response.chain)
         IN  IF v.exc # "none" THEN [loop EXCEPT !.exc = v.exc]
             ELSE IF v.ret
                  THEN [loop EXCEPT !.max_length = response.length,
                                    !.new_chain = [none |-> FALSE,
                                                   chain |-> response.chain]]
                  ELSE loop

RECURSIVE resolve_loop(_, _, _)
resolve_loop(loop, neighbours, responses) ==
    IF neighbours = <<>> THEN loop
    ELSE resolve_loop(resolve_visit(loop, responses[Head(neighbours)]),
                      Tail(neighbours), responses)

resolve_conflicts(self, neighbours, responses) ==
    LET loop == resolve_loop([max_length |-> Len(self.chain),
                              new_chain |-> None,
                              exc |-> "none"],
                             neighbours, responses)
    IN  IF loop.exc # "none"
        THEN [self |-> self, ret |-> FALSE, exc |-> loop.exc]
        ELSE IF ~loop.new_chain.none /\ loop.new_chain.chain # <<>>
             THEN [self |-> [self EXCEPT !.chain = loop.new_chain.chain],
                   ret |-> TRUE, exc |-> "none"]
             ELSE [self |-> self, ret |-> FALSE, exc |-> "none"]

(***************************************************************************)
(* Blockchain.register_node.  urlparse is tabulated on the addresses the   *)
(* model submits.                                                          *)
(***************************************************************************)
Addresses == {"http://p1:5000", "10.0.0.2:5000", ""}

urlparse(address) ==
    CASE address = "http://p1:5000" -> [netloc |-> "p1:5000", path |-> ""]
      [] address = "10.0.0.2:5000" -> [netloc |-> "", path |-> "10.0.0.2:5000"]
      [] address = "" -> [netloc |-> "", path |-> ""]

register_node(self, address) ==
    LET parsed_url == urlparse(address)
    IN  IF parsed_url.netloc # ""
        THEN [self |-> [self EXCEPT !.nodes = @ \cup {parsed_url.netloc}],
              exc |-> "none"]
        ELSE IF parsed_url.path # ""
             THEN [self |-> [self EXCEPT !.nodes = @ \cup {parsed_url.path}],
                   exc |-> "none"]
             ELSE [self |-> self, exc |-> "ValueError"]

(***************************************************************************)
(* The route handlers, as functions of the Blockchain object.              *)
(***************************************************************************)
\* a mine that numbers the new block after the last block's index
mine_as_index_after_last(self, identifier, now) ==
    LET last == last_block(self)
        proof == proof_of_work(last)
        rewarded == Blockchain_new_transaction(self, "0", identifier, 1).self
        sealed == new_block(rewarded, proof, hash(last), now)
        block == [sealed.ret EXCEPT !.index = last.index + 1]
    IN  [self |-> [sealed.self EXCEPT !.chain = Append(rewarded.chain, block)],
         ret |-> block]

\* mine, run by a node whose identifier is identifier
mine_as(self, identifier, now) ==
    LET last == last_block(self)
        proof == proof_of_work(last)
        rewarded == Blockchain_new_transaction(self, "0", identifier, 1).self
        previous_hash == hash(last)
    IN  new_block(rewarded, proof, previous_hash, now)

\* the for loop of register_nodes: stops at the first address that raises
RECURSIVE register_loop(_, _)
register_loop(self, addresses) ==
    IF addresses = <<>> THEN [self |-> self, exc |-> "none"]
    ELSE LET r == register_node(self, Head(addresses))
         IN  IF r.exc # "none" THEN r
             ELSE register_loop(r.self, Tail(addresses))

\* full_chain: the body of a node's answer to GET /chain
full_chain(self) ==
    [reachable |-> TRUE, status_code |-> 200,
     length |-> Len(self.chain), chain |-> self.chain]

(***************************************************************************)
(* The peers.  A peer is whatever answers GET http://<node>/chain: a node  *)
(* running this program (full_chain of a chain it mined), a server that    *)
(* answers with another body, a server that answers with an error status,  *)
(* or nothing at all (the connection is refused).                          *)
(***************************************************************************)
Peers == {"p1:5000", "10.0.0.2:5000"}

\* what a peer's clock reads when it makes its k-th block: the peers run
\* elsewhere and none of their readings is a reading of this node's clock
peer_time(k) == MaxClock + MaxThreads + k

peer_identifier == "peer"

\* a node that has mined k - 1 blocks on top of the one-block chain of self
RECURSIVE mined(_, _)
mined(self, k) ==
    IF k <= 1 THEN self
    ELSE mine_as(mined(self, k - 1), peer_identifier, peer_time(k)).self

\* a first block that carries none of the genesis sentinels
rogue_first ==
    [chain |-> <<[index |-> 1, timestamp |-> peer_time(1),
                  transactions |-> <<>>,
                  proof |-> 0, previous_hash |-> <<0>>]>>,
     current_transactions |-> <<>>, nodes |-> {}]

honest_nodes == {mined(Blockchain_init(peer_time(1)), k) : k \in 1..MaxPeerLen}

set_proof(ch, i, p) == [ch EXCEPT ![i].proof = p]
set_previous_hash(ch, i, h) == [ch EXCEPT ![i].previous_hash = h]
set_index(ch, i, n) == [ch EXCEPT ![i].index = n]

\* the body a server sends: any chain with any reported length
body(ch, length) ==
    [reachable |-> TRUE, status_code |-> 200, length |-> length, chain |-> ch]

refused == [reachable |-> FALSE, status_code |-> 0, length |-> 0, chain |-> <<>>]

unavailable == [reachable |-> TRUE, status_code |-> 503, length |-> 0, chain |-> <<>>]

\* the longest chains honest peers serve, with the last proof off by one
tampered_chains ==
    {set_proof(n.chain, Len(n.chain),
               (last_block(n).proof + 1) % (2 * Difficulty))
     : n \in {m \in honest_nodes : Len(m.chain) = MaxPeerLen}}

\* a two-block chain grown on rogue_first whose last block numbers itself
\* one too high
rogue_chain ==
    LET ch == mined(rogue_first, 2).chain
    IN  set_index(ch, Len(ch), Len(ch) + 1)

Responses ==
    {full_chain(n) : n \in honest_nodes}
    \cup {body(rogue_chain, Len(rogue_chain))}
    \cup {body(ch, Len(ch)) : ch \in tampered_chains}
    \cup {body(n.chain, MaxPeerLen + 1) : n \in {m \in honest_nodes : Len(m.chain) = 1}}
    \cup {body(<<>>, MaxPeerLen + 1)}
    \cup {refused, unavailable}

(***************************************************************************)
(* The state: the module-level blockchain object, what each peer serves,   *)
(* and the outcome of the last request the node handled.                   *)
(***************************************************************************)
Self == [chain |-> chain, current_transactions |-> current_transactions,
         nodes |-> nodes]

Outcome(op, status, index, replaced, exc) ==
    [op |-> op, status |-> status, index |-> index, replaced |-> replaced,
     exc |-> exc]

Becomes(self) ==
    /\ chain' = self.chain
    /\ current_transactions' = self.current_transactions
    /\ nodes' = self.nodes

\* a request thread of the server: what it runs (op), where it is (pc) and
\* its local names
idle ==
    [pc |-> "idle", op |-> "none",
     last_block |-> <<>>, last_ref |-> 0, proof |-> 0, previous_hash |-> <<>>,
     ref |-> 0, index |-> 0, timestamp |-> 0, block |-> <<>>,
     max_length |-> 0, new_chain |-> None, iter |-> <<>>, visited |-> {},
     node |-> "", response |-> <<>>]

Threads == 1..MaxThreads

\* after Blockchain(): no request is running; the list objects are the one
\* the genesis block took as its transactions and the one bound to
\* current_transactions after it (heap), pool is the list bound to
\* current_transactions, transactions[k] is the list that block k of chain
\* holds (0 for a block parsed from a peer's answer), and holders are the
\* threads that read self.chain for an append they have not made yet and got
\* the list that is bound to self.chain now
no_threads ==
    [heap |-> <<<<>>, <<>>>>, pool |-> 2, transactions |-> <<1>>, holders |-> {},
     local |-> [t \in Threads |-> idle]]

\* time(): each call reads the node's clock and no two calls read the same
\* value; clock is the next reading
time == clock

Init ==
    /\ threads = no_threads
    /\ LET self == Blockchain_init(0)
       IN  /\ chain = self.chain
           /\ current_transactions = self.current_transactions
           /\ nodes = self.nodes
    /\ clock = 1
    /\ served \in [Peers -> {refused}]
    /\ result = Outcome("init", 0, 0, FALSE, "none")

\* the transaction mine adds for the node itself
reward == [sender |-> "0", recipient |-> node_identifier, amount |-> 1]

(***************************************************************************)
(* The server's request threads.  app.run(host, port) leaves the dispatch  *)
(* to the server: handlers may run one at a time or in threads of one      *)
(* process, over the one Blockchain object, with no lock in the program.   *)
(* A thread switch may fall between two statements, between the entries a  *)
(* dict display evaluates, between reading an attribute that names a list  *)
(* (self.current_transactions, self.chain) and appending to the list read, *)
(* and while requests.get waits for a peer.  Lists and dicts are objects:  *)
(* a name bound to the last block sees what is appended to that block's    *)
(* list, the dict new_block builds holds the very list that                *)
(* current_transactions names until line 134 binds the attribute to a new  *)
(* list, and an append to a list that self.chain named before line 109     *)
(* bound another one does not reach the chain.                             *)
(***************************************************************************)
\* a block with the present content of the list ref that it holds
holding(block, ref, heap) ==
    IF ref = 0 THEN block ELSE [block EXCEPT !.transactions = heap[ref]]

\* the chain as a reader sees it: each block with the present content of the
\* list it holds
deref(ch, lists) ==
    [k \in 1..Len(ch) |-> holding(ch[k], lists.transactions[k], lists.heap)]

\* the dicts the threads hold, as they see them
seen(lists) ==
    [lists EXCEPT !.local =
        [u \in Threads |->
            LET me == lists.local[u]
            IN  [me EXCEPT
                   !.last_block = IF @ = <<>> THEN @
                                  ELSE <<holding(@[1], me.last_ref, lists.heap)>>,
                   !.block = IF @ = <<>> THEN @
                             ELSE <<holding(@[1], me.ref, lists.heap)>>]]]

\* thread t goes on as rec; the object's lists become lists and its chain ch
Runs(t, rec, lists, ch, outcome) ==
    LET th == seen([lists EXCEPT !.local[t] = rec])
    IN  /\ threads' = th
        /\ chain' = deref(ch, th)
        /\ current_transactions' = th.heap[th.pool]
        /\ result' = outcome
        /\ UNCHANGED served

\* the server hands a request to thread t, the threads in order of arrival;
\* a serial server waits until no other request is running
Dispatch(t, serial) ==
    /\ threads.local[t].pc = "idle"
    /\ IF t = 1 THEN TRUE ELSE threads.local[t - 1].pc # "idle"
    /\ serial => \A u \in Threads : threads.local[u].pc \in {"idle", "done"}

\* a thread whose work on the request is over: what is left is to return
\* the response to the server
answers(outcome) ==
    [idle EXCEPT !.pc = "answer", !.op = outcome.op, !.response = <<outcome>>]

\* what is left of a thread whose request is answered
done(t, index) ==
    [idle EXCEPT !.pc = "done", !.op = threads.local[t].op, !.index = index]

\* return jsonify(response), or the exception that leaves the handler: the
\* server sends the answer
handler_return(t) ==
    /\ threads.local[t].pc = "answer"
    /\ LET response == threads.local[t].response[1]
       IN  Runs(t, done(t, response.index), threads, chain, response)
    /\ UNCHANGED <<nodes, clock>>

\* the body of the t-th request, when it is a POST to /transactions/new
transaction(t) == [sender |-> "a", recipient |-> "b", amount |-> t]

\* mine: last_block = blockchain.last_block, the dict that is in the chain
mine_last_block(t, serial) ==
    /\ Dispatch(t, serial)
    /\ Runs(t, [idle EXCEPT !.pc = "proof_of_work", !.op = "mine",
                            !.last_block = <<chain[Len(chain)]>>,
                            !.last_ref = threads.transactions[Len(chain)]],
            threads, chain, result)
    /\ UNCHANGED <<nodes, clock>>

\* mine: proof = blockchain.proof_of_work(last_block)
mine_proof_of_work(t) ==
    /\ threads.local[t].pc = "proof_of_work"
    /\ Runs(t, [threads.local[t] EXCEPT
                   !.pc = "current_transactions",
                   !.proof = proof_of_work(threads.local[t].last_block[1])],
            threads, chain, result)
    /\ UNCHANGED <<nodes, clock>>

\* mine calls new_transaction: self.current_transactions is read
mine_current_transactions(t) ==
    /\ threads.local[t].pc = "current_transactions"
    /\ Runs(t, [threads.local[t] EXCEPT !.pc = "append", !.ref = threads.pool],
            threads, chain, result)
    /\ UNCHANGED <<nodes, clock>>

\* the /transactions/new handler calls new_transaction:
\* self.current_transactions is read
new_transaction_current_transactions(t, serial) ==
    /\ Dispatch(t, serial)
    /\ Runs(t, [idle EXCEPT !.pc = "append", !.op = "new_transaction",
                            !.ref = threads.pool],
            threads, chain, result)
    /\ UNCHANGED <<nodes, clock>>

\* new_transaction: .append({...}) on the list that was read
new_transaction_append(t) ==
    /\ threads.local[t].pc = "append"
    /\ LET me == threads.local[t]
           appended == IF me.op = "mine" THEN reward ELSE transaction(t)
       IN  Runs(t, [me EXCEPT !.pc = "return", !.ref = 0],
                [threads EXCEPT !.heap[me.ref] = Append(@, appended)],
                chain, result)
    /\ UNCHANGED <<nodes, clock>>

\* new_transaction: return self.last_block['index'] + 1; the handler of
\* /transactions/new puts it in its response, mine drops it
new_transaction_return(t) ==
    /\ threads.local[t].pc = "return"
    /\ LET me == threads.local[t]
           index == chain[Len(chain)].index + 1
       IN  IF me.op = "mine"
           THEN Runs(t, [me EXCEPT !.pc = "hash"], threads, chain, result)
           ELSE Runs(t, answers(Outcome("new_transaction", 201, index,
                                        FALSE, "none")),
                     threads, chain, result)
    /\ UNCHANGED <<nodes, clock>>

\* mine: previous_hash = blockchain.hash(last_block)
mine_hash(t) ==
    /\ threads.local[t].pc = "hash"
    /\ Runs(t, [threads.local[t] EXCEPT
                   !.pc = "new_block",
                   !.previous_hash = hash(threads.local[t].last_block[1])],
            threads, chain, result)
    /\ UNCHANGED <<nodes, clock>>

\* new_block: 'index': len(self.chain) + 1
new_block_index(t) ==
    /\ threads.local[t].pc = "new_block"
    /\ Runs(t, [threads.local[t] EXCEPT !.pc = "timestamp",
                                        !.index = Len(chain) + 1],
            threads, chain, result)
    /\ UNCHANGED <<nodes, clock>>

\* new_block: 'timestamp': time()
new_block_timestamp(t) ==
    /\ threads.local[t].pc = "timestamp"
    /\ Runs(t, [threads.local[t] EXCEPT !.pc = "transactions",
                                        !.timestamp = time],
            threads, chain, result)
    /\ clock' = clock + 1
    /\ UNCHANGED nodes

\* new_block: 'transactions': self.current_transactions, and the rest of
\* the dict
new_block_transactions(t) ==
    /\ threads.local[t].pc = "transactions"
    /\ LET me == threads.local[t]
           block == [index |-> me.index,
                     timestamp |-> me.timestamp,
                     transactions |-> threads.heap[threads.pool],
                     proof |-> me.proof,
                     previous_hash |-> me.previous_hash]
       IN  Runs(t, [me EXCEPT !.pc = "reset", !.block = <<block>>,
                              !.ref = threads.pool],
                threads, chain, result)
    /\ UNCHANGED <<nodes, clock>>

\* a reset that empties the list in place
new_block_reset_in_place(t) ==
    /\ threads.local[t].pc = "reset"
    /\ Runs(t, [threads.local[t] EXCEPT !.pc = "chain"],
            [threads EXCEPT !.heap[threads.pool] = <<>>],
            chain, result)
    /\ UNCHANGED <<nodes, clock>>

\* new_block: self.current_transactions = []
new_block_reset(t) ==
    /\ threads.local[t].pc = "reset"
    /\ Runs(t, [threads.local[t] EXCEPT !.pc = "chain"],
            [threads EXCEPT !.heap = Append(@, <<>>),
                            !.pool = Len(threads.heap) + 1],
            chain, result)
    /\ UNCHANGED <<nodes, clock>>

\* new_block: self.chain is read, for the append
new_block_chain(t) ==
    /\ threads.local[t].pc = "chain"
    /\ Runs(t, [threads.local[t] EXCEPT !.pc = "chain_append"],
            [threads EXCEPT !.holders = @ \cup {t}], chain, result)
    /\ UNCHANGED <<nodes, clock>>

\* new_block: .append(block) on the list that was read, which is the chain
\* unless self.chain was bound to another list since; the /mine handler
\* makes its response of the block
new_block_chain_append(t) ==
    /\ threads.local[t].pc = "chain_append"
    /\ LET me == threads.local[t]
           response == Outcome("mine", 200, me.block[1].index, FALSE, "none")
       IN  IF t \in threads.holders
           THEN Runs(t, answers(response),
                     [threads EXCEPT !.transactions = Append(@, me.ref),
                                     !.holders = @ \ {t}],
                     Append(chain, me.block[1]), result)
           ELSE Runs(t, answers(response), threads, chain, result)
    /\ UNCHANGED <<nodes, clock>>

\* the /nodes/register handler, for a list of one address, up to its
\* response
register_nodes_one(t, serial, address) ==
    /\ Dispatch(t, serial)
    /\ LET r == register_loop(Self, <<address>>)
       IN  /\ nodes' = r.self.nodes
           /\ Runs(t, answers(Outcome("register_nodes",
                                      IF r.exc = "none" THEN 201 ELSE 500,
                                      0, FALSE, r.exc)),
                   threads, chain, result)
    /\ UNCHANGED clock

\* resolve_conflicts: neighbours = self.nodes (the set itself, no copy),
\* new_chain = None, max_length = len(self.chain)
resolve_conflicts_max_length(t, serial) ==
    /\ Dispatch(t, serial)
    /\ Runs(t, [idle EXCEPT !.pc = "for", !.op = "consensus",
                            !.max_length = Len(chain)],
            threads, chain, result)
    /\ UNCHANGED <<nodes, clock>>

\* resolve_conflicts: for node in neighbours.  The iterator is made at the
\* first pass; a pass raises RuntimeError when the set has another size than
\* it had then, ends the loop when every node was visited, and otherwise
\* sends the request to a node not yet visited
resolve_conflicts_for(t) ==
    /\ threads.local[t].pc = "for"
    /\ LET me == threads.local[t]
           size == IF me.iter = <<>> THEN Cardinality(nodes) ELSE me.iter[1]
       IN  IF Cardinality(nodes) # size
           THEN Runs(t, answers(Outcome("consensus", 500, 0, FALSE,
                                        "RuntimeError")),
                     threads, chain, result)
           ELSE IF nodes \ me.visited = {}
           THEN Runs(t, [me EXCEPT !.pc = "new_chain"], threads, chain, result)
           ELSE \E node \in nodes \ me.visited :
                    Runs(t, [me EXCEPT !.pc = "get", !.iter = <<size>>,
                                       !.node = node,
                                       !.visited = @ \cup {node}],
                         threads, chain, result)
    /\ UNCHANGED <<nodes, clock>>

\* resolve_conflicts: the answer of requests.get arrives, and the body of
\* the loop
resolve_conflicts_get(t) ==
    /\ threads.local[t].pc = "get"
    /\ LET me == threads.local[t]
           loop == resolve_visit([max_length |-> me.max_length,
                                  new_chain |-> me.new_chain,
                                  exc |-> "none"],
                                 served[me.node])
       IN  IF loop.exc # "none"
           THEN Runs(t, answers(Outcome("consensus", 500, 0, FALSE, loop.exc)),
                     threads, chain, result)
           ELSE Runs(t, [me EXCEPT !.pc = "for",
                                   !.max_length = loop.max_length,
                                   !.new_chain = loop.new_chain],
                     threads, chain, result)
    /\ UNCHANGED <<nodes, clock>>

\* a resolve that also empties the pending pool when it adopts a chain
resolve_conflicts_new_chain_drops_pool(t) ==
    /\ threads.local[t].pc = "new_chain"
    /\ LET me == threads.local[t]
       IN  IF ~me.new_chain.none /\ me.new_chain.chain # <<>>
           THEN Runs(t, answers(Outcome("consensus", 200, 0, TRUE, "none")),
                     [threads EXCEPT !.transactions =
                                         [k \in 1..Len(me.new_chain.chain) |-> 0],
                                     !.holders = {},
                                     !.heap[threads.pool] = <<>>],
                     me.new_chain.chain, result)
           ELSE Runs(t, answers(Outcome("consensus", 200, 0, FALSE, "none")),
                     threads, chain, result)
    /\ UNCHANGED <<nodes, clock>>

\* resolve_conflicts: if new_chain: self.chain = new_chain, the list parsed
\* from the peer's answer; the /nodes/resolve handler makes its response of
\* what resolve_conflicts returns
resolve_conflicts_new_chain(t) ==
    /\ threads.local[t].pc = "new_chain"
    /\ LET me == threads.local[t]
       IN  IF ~me.new_chain.none /\ me.new_chain.chain # <<>>
           THEN Runs(t, answers(Outcome("consensus", 200, 0, TRUE, "none")),
                     [threads EXCEPT !.transactions =
                                         [k \in 1..Len(me.new_chain.chain) |-> 0],
                                     !.holders = {}],
                     me.new_chain.chain, result)
           ELSE Runs(t, answers(Outcome("consensus", 200, 0, FALSE, "none")),
                     threads, chain, result)
    /\ UNCHANGED <<nodes, clock>>

\* the thread of an answered request ends; the next request the server
\* hands to a thread of this number is another request
thread_exits(t) ==
    /\ threads.local[t].pc = "done"
    /\ threads' = [threads EXCEPT !.local[t] = idle]
    /\ UNCHANGED <<chain, current_transactions, nodes, served, result, clock>>

\* JSON bodies posted to /transactions/new
Amounts == {5, 7}

Values(amounts) ==
    {[keys |-> {"sender", "recipient", "amount"},
      sender |-> "a", recipient |-> "b", amount |-> a] : a \in amounts}
    \cup {[keys |-> {"sender", "recipient"},
           sender |-> "a", recipient |-> "b", amount |-> 0]}

(***************************************************************************)
(* The handlers that wait for nothing (new_transaction, mine,              *)
(* register_nodes), served from the first statement to the answer with no  *)
(* other request of the node in between.  The lists they leave are the     *)
(* lists their statements leave.                                           *)
(***************************************************************************)
\* the /transactions/new handler
new_transaction(values, limit) ==
    /\ Len(current_transactions) < limit
    /\ IF ~({"sender", "recipient", "amount"} \subseteq values.keys)
       THEN /\ result' = Outcome("new_transaction", 400, 0, FALSE, "none")
            /\ UNCHANGED <<chain, current_transactions, nodes, threads>>
       ELSE LET r == Blockchain_new_transaction(Self, values.sender,
                                                values.recipient, values.amount)
            IN  /\ Becomes(r.self)
                /\ threads' = seen([threads EXCEPT !.heap[threads.pool] =
                                        r.self.current_transactions])
                /\ result' = Outcome("new_transaction", 201, r.ret, FALSE, "none")
    /\ UNCHANGED <<served, clock>>

\* the /mine handler
mine(now) ==
    /\ Len(chain) < MaxChain
    /\ now = time
    /\ LET r == mine_as(Self, node_identifier, now)
       IN  /\ Becomes(r.self)
           /\ threads' = seen([threads EXCEPT
                   !.heap = Append([@ EXCEPT ![threads.pool] =
                                       r.ret.transactions], <<>>),
                   !.pool = Len(threads.heap) + 1,
                   !.transactions = Append(@, threads.pool)])
           /\ result' = Outcome("mine", 200, r.ret.index, FALSE, "none")
    /\ clock' = clock + 1
    /\ UNCHANGED served

\* JSON bodies posted to /nodes/register: the list under 'nodes'
AddressLists ==
    {<<>>} \cup {<<a>> : a \in Addresses}
           \cup {l \in {<<a, b>> : a \in Addresses, b \in Addresses} :
                     l[1] # l[2] /\ l[1] # ""}

\* the /nodes/register handler; has_nodes is FALSE when 'nodes' is absent
register_nodes(has_nodes, addresses) ==
    /\ has_nodes \/ addresses = <<>>
    /\ IF ~has_nodes
       THEN /\ result' = Outcome("register_nodes", 400, 0, FALSE, "none")
            /\ UNCHANGED <<chain, current_transactions, nodes>>
       ELSE LET r == register_loop(Self, addresses)
            IN  /\ Becomes(r.self)
                /\ result' = Outcome("register_nodes",
                                     IF r.exc = "none" THEN 201 ELSE 500,
                                     0, FALSE, r.exc)
    /\ UNCHANGED <<served, threads, clock>>

\* the orders in which a for loop may visit a set
Orders(S) ==
    {o \in [1..Cardinality(S) -> S] : \A i, j \in 1..Cardinality(S) :
                                         o[i] = o[j] => i = j}

\* the server of a registered peer starts to answer r.  A resolve reads each
\* peer once and nothing else of the node reads a peer, so the answer a
\* resolve gets is one the peer may have taken up before the resolve began:
\* the peers change what they serve while no resolve is running
peer_serves(p, r) ==
    /\ p \in nodes
    /\ r # served[p]
    /\ \A t \in Threads : threads.local[t].pc \in {"idle", "done"}
    /\ served' = [served EXCEPT ![p] = r]
    /\ UNCHANGED <<chain, current_transactions, nodes, result, threads, clock>>

\* the threads that serve the requests to /nodes/resolve
Resolvers == 1..MaxResolves

\* the node with its peers.  A request to /nodes/resolve is served by a
\* thread, step by step, and stands still while requests.get waits for a
\* peer; meanwhile the server serves other requests: the handlers that wait
\* for nothing, from start to end, and other resolves.  The switches between
\* the statements of those handlers are in SpecThreads.
Next ==
    \/ \E values \in Values({5}) : new_transaction(values, MaxPool)
    \/ clock < MaxClock /\ mine(time)
    \/ \E has_nodes \in BOOLEAN, addresses \in AddressLists :
         register_nodes(has_nodes, addresses)
    \/ \E t \in Resolvers : resolve_conflicts_max_length(t, FALSE)
    \/ \E t \in Resolvers : resolve_conflicts_for(t)
    \/ \E t \in Resolvers : resolve_conflicts_get(t)
    \/ \E t \in Resolvers : resolve_conflicts_new_chain(t)
    \/ \E t \in Resolvers : handler_return(t)
    \/ \E t \in Resolvers : thread_exits(t)
    \/ \E p \in Peers, r \in Responses : peer_serves(p, r)

Spec == Init /\ [][Next]_vars

\* the ledger alone: a node with no peers that takes transactions and mines
NextLedger ==
    \/ \E values \in Values(Amounts) : new_transaction(values, MaxLedgerPool)
    \/ mine(time)

SpecLedger == Init /\ [][NextLedger]_vars

(***************************************************************************)
(* The validator alone: the node builds a chain, and valid_chain is called *)
(* on that chain and on altered copies of it.  The copy is recorded as the *)
(* chain the first peer serves, the verdict in result.replaced.            *)
(***************************************************************************)
validator_peer == "p1:5000"

insert_block(ch, k, block) ==
    SubSeq(ch, 1, k - 1) \o <<block>> \o SubSeq(ch, k, Len(ch))

\* the block a peer would mine on top of the first k blocks of ch
mined_on(ch, k) ==
    mine_as([chain |-> SubSeq(ch, 1, k), current_transactions |-> <<>>,
             nodes |-> {}],
            peer_identifier, peer_time(k + 1)).ret

Candidates(ch) ==
    {ch}
    \cup {set_proof(ch, i, p) : i \in 1..Len(ch), p \in Proofs \cup {100}}
    \cup {set_previous_hash(ch, i, h) :
             i \in 1..Len(ch),
             h \in {<<1>>, <<0>>} \cup {hash(ch[j]) : j \in 1..Len(ch)}}
    \cup {insert_block(ch, k, ch[j]) : k \in 1..Len(ch), j \in 1..Len(ch)}
    \cup {insert_block(ch, k + 1, mined_on(ch, k)) : k \in 1..(Len(ch) - 1)}

\* valid_chain is called on candidate
check_chain(candidate) ==
    /\ LET v == valid_chain(candidate)
       IN  result' = Outcome("valid_chain", 0, 0, v.ret, v.exc)
    /\ served' = [served EXCEPT ![validator_peer] =
                      body(candidate, Len(candidate))]
    /\ UNCHANGED <<chain, current_transactions, nodes, threads, clock>>

\* the chain is built first; a call of valid_chain ends the run
NextValid ==
    \/ /\ result.op # "valid_chain"
       /\ \E values \in Values({5}) : new_transaction(values, MaxPool)
    \/ /\ result.op # "valid_chain"
       /\ mine(time)
    \/ /\ result.op # "valid_chain"
       /\ \E candidate \in Candidates(chain) : check_chain(candidate)

SpecValid == Init /\ [][NextValid]_vars

(***************************************************************************)
(* Vocabulary of the properties.                                           *)
(***************************************************************************)
\* the step is a handler that waits for nothing, serving a request op from
\* its first statement to its answer: the peers leave result alone, and so
\* does every step of a thread but the one that returns the response
Handled(op) ==
    /\ result'.op = op
    /\ served' = served
    /\ threads'.local = threads.local

\* with this step thread t ends the work of a request op: the response it
\* will return is made
Ends(t, op) ==
    /\ threads'.local[t].op = op
    /\ threads.local[t].pc # "answer"
    /\ threads'.local[t].pc = "answer"

\* the response thread t has made
Response(t) == threads'.local[t].response[1]

\* a step of a running resolve, the first one included
ResolveStep == \E t \in Threads : /\ threads'.local[t].op = "consensus"
                                  /\ threads'.local[t] # threads.local[t]

\* the validity relation of a chain, pair by pair
ValidityRelation(ch) ==
    \A i \in 1..(Len(ch) - 1) :
        /\ ch[i + 1].previous_hash = hash(ch[i])
        /\ valid_proof(ch[i].proof, ch[i + 1].proof, hash(ch[i]))

\* a peer answers with a body: the connection opens and the status is 200
Answers(p) == served[p].reachable /\ served[p].status_code = 200

\* the node has registered p1:5000, a node of this program that has mined
\* one block; the server at 10.0.0.2:5000 answers 503
InitThreads ==
    /\ threads = no_threads
    /\ LET self == Blockchain_init(0)
       IN  /\ chain = self.chain
           /\ current_transactions = self.current_transactions
    /\ clock = 1
    /\ nodes = {"p1:5000"}
    /\ served = [p \in Peers |->
                    IF p = "p1:5000"
                    THEN full_chain(mined(Blockchain_init(peer_time(1)), 2))
                    ELSE unavailable]
    /\ result = Outcome("init", 0, 0, FALSE, "none")

Requests(serial) ==
    \/ \E t \in Threads : mine_last_block(t, serial)
    \/ \E t \in Threads : mine_proof_of_work(t)
    \/ \E t \in Threads : mine_current_transactions(t)
    \/ \E t \in Threads : new_transaction_current_transactions(t, serial)
    \/ \E t \in Threads : new_transaction_append(t)
    \/ \E t \in Threads : new_transaction_return(t)
    \/ \E t \in Threads : mine_hash(t)
    \/ \E t \in Threads : new_block_index(t)
    \/ \E t \in Threads : new_block_timestamp(t)
    \/ \E t \in Threads : new_block_transactions(t)
    \/ \E t \in Threads : new_block_reset(t)
    \/ \E t \in Threads : new_block_chain(t)
    \/ \E t \in Threads : new_block_chain_append(t)
    \/ \E t \in Threads, address \in Addresses :
         register_nodes_one(t, serial, address)
    \/ \E t \in Threads : resolve_conflicts_max_length(t, serial)
    \/ \E t \in Threads : resolve_conflicts_for(t)
    \/ \E t \in Threads : resolve_conflicts_get(t)
    \/ \E t \in Threads : resolve_conflicts_new_chain(t)
    \/ \E t \in Threads : handler_return(t)

\* one request at a time
NextSerial == Requests(TRUE)

SpecSerial == InitThreads /\ [][NextSerial]_vars

\* requests in threads
NextThreads == Requests(FALSE)

SpecThreads == InitThreads /\ [][NextThreads]_vars

\* C1: in every reachable state the local chain satisfies the validity
\* relation: each block's previous_hash is the digest of the block before it
\* and its proof solves the puzzle set by that block.
C1_ChainValid == ValidityRelation(chain)

\* C1 witness: the node has mined on top of a chain it adopted from a peer
C1_Witness ==
    /\ result.op = "mine"
    /\ Len(chain) >= 3
    /\ chain[2].transactions # <<>>
    /\ chain[2].transactions[1].recipient = peer_identifier
    /\ chain[Len(chain)].transactions[1].recipient = node_identifier

\* C2 (as claimed): resolve never shortens the local chain, and a resolve
\* that returns true or changes the chain leaves it strictly longer, counted
\* in blocks.
C2_NeverShorter ==
    [][\A t \in Threads : Ends(t, "consensus") =>
         /\ Len(chain') >= Len(chain)
         /\ (Response(t).replaced \/ chain' # chain) => Len(chain') > Len(chain)
      ]_vars

\* a chain that passes the validity check of the specification: it has a
\* block and satisfies the validity relation
Valid(ch) == ch # <<>> /\ ValidityRelation(ch)

\* the registered peers that serve a valid chain with more blocks than ours
LongerValid ==
    {p \in nodes : /\ Answers(p)
                   /\ Valid(served[p].chain)
                   /\ Len(served[p].chain) > Len(chain)}

\* C3 (as claimed): when some registered peer serves a valid chain with more
\* blocks than the local one, resolve returns true and the local chain becomes
\* such a peer's chain; otherwise it returns false and leaves the chain alone.
C3_TrueIffReplaced ==
    [][\A t \in Threads : Ends(t, "consensus") =>
         IF LongerValid # {}
         THEN /\ Response(t).replaced
              /\ \E p \in LongerValid : chain' = served[p].chain
         ELSE /\ ~Response(t).replaced
              /\ chain' = chain
      ]_vars

\* C4 (as claimed): when one peer reports more blocks than we have but its
\* chain fails validation, and another peer serves a valid chain longer than
\* ours, resolve adopts the valid one and never the invalid one, whatever the
\* order of the visit.
C4_SkipsInvalid ==
    [][\A t \in Threads : Ends(t, "consensus") =>
         \A p, q \in nodes :
             ( /\ p # q
               /\ nodes = {p, q}
               /\ Answers(p)
               /\ served[p].length > Len(chain)
               /\ ~Valid(served[p].chain)
               /\ q \in LongerValid
               /\ served[q].length = Len(served[q].chain) )
             => /\ Response(t).replaced
                /\ chain' = served[q].chain
      ]_vars

\* C5 (as claimed): resolve does not fail on a peer that is unreachable or
\* answers with an error status; its outcome is the outcome of a resolve over
\* the peers that do answer.
C5_SkipsUnreachable ==
    [][\A t \in Threads : Ends(t, "consensus") =>
         /\ Response(t).exc # "ConnectionError"
         /\ \E o \in Orders({p \in nodes : Answers(p)}) :
              LET r == resolve_conflicts(Self, o, served)
              IN  /\ chain' = r.self.chain
                  /\ Response(t).replaced = r.ret
                  /\ Response(t).exc = r.exc
      ]_vars

\* C6 (as claimed): validating a chain a peer supplies never raises, the
\* empty chain included, and leaves the pending pool and the peer set alone.
C6_ValidationNeverRaises ==
    [][\A t \in Threads : Ends(t, "consensus") =>
         /\ Response(t).exc # "IndexError"
         /\ current_transactions' = current_transactions
         /\ nodes' = nodes
      ]_vars

\* every block's index is its 1-based position in the chain
IndexIsPosition(ch) == \A i \in 1..Len(ch) : ch[i].index = i

\* C7 (as claimed): in every reachable state every block of the local chain
\* has index equal to its 1-based position.
C7_IndexIsPosition == IndexIsPosition(chain)

\* C7 (amended): index = position holds at construction and is preserved by
\* every request except a resolve that replaces the chain, and the block a
\* mine appends always has index equal to its position.
C7_IndexKeptLocally ==
    /\ IndexIsPosition(chain)
    /\ [][ /\ ( /\ IndexIsPosition(chain)
                 /\ ~\E t \in Threads : /\ Ends(t, "consensus")
                                        /\ Response(t).replaced )
               => IndexIsPosition(chain')
           /\ Handled("mine") => chain'[Len(chain')].index = Len(chain')
         ]_vars

\* C7 witness: the node has mined a block on top of an adopted chain whose
\* last block carried a wrong index
C7_Witness ==
    /\ result.op = "mine"
    /\ Len(chain) >= 2
    /\ chain[Len(chain) - 1].index # Len(chain) - 1
    /\ chain[Len(chain)].index = Len(chain)

\* C8 (as claimed): an accepted submission appends exactly the submitted
\* transaction to the pending pool, leaves the chain alone and returns the
\* chain length + 1.
C8_SubmitReturnsNextIndex ==
    [][(Handled("new_transaction") /\ result'.status = 201) =>
         /\ \E v \in Values(Amounts) :
              current_transactions' =
                  Append(current_transactions,
                         [sender |-> v.sender, recipient |-> v.recipient,
                          amount |-> v.amount])
         /\ chain' = chain
         /\ result'.index = Len(chain) + 1
      ]_vars

\* C9: the block a mine seals holds the pending pool as it was, in order,
\* then one reward transaction; its index is the old chain length + 1; the
\* chain grows by that block alone and the pending pool is empty afterwards.
C9_MineSealsPool ==
    [][Handled("mine") =>
         /\ Len(chain') = Len(chain) + 1
         /\ SubSeq(chain', 1, Len(chain)) = chain
         /\ chain'[Len(chain')].transactions =
                current_transactions \o <<reward>>
         /\ chain'[Len(chain')].index = Len(chain) + 1
         /\ current_transactions' = <<>>
      ]_vars

\* C9 witness: a mined block holding two different submissions, then the reward
C9_Witness ==
    /\ result.op = "mine"
    /\ current_transactions = <<>>
    /\ Len(chain[Len(chain)].transactions) = 3
    /\ chain[Len(chain)].transactions[1].amount
           # chain[Len(chain)].transactions[2].amount
    /\ chain[Len(chain)].transactions[3] = reward

\* under SpecValid: the chain valid_chain was last called on
checked == served[validator_peer].chain

\* block i of the copy differs from the original in its proof alone
ProofChanged(original, copy, i) ==
    /\ Len(copy) = Len(original)
    /\ i \in 1..Len(original)
    /\ copy[i].proof # original[i].proof
    /\ copy = set_proof(original, i, copy[i].proof)

\* block i of the copy differs from the original in its previous_hash alone
PreviousHashChanged(original, copy, i) ==
    /\ Len(copy) = Len(original)
    /\ i \in 1..Len(original)
    /\ copy[i].previous_hash # original[i].previous_hash
    /\ copy = set_previous_hash(original, i, copy[i].previous_hash)

\* the copy is the original with one block put in front of its block k
Inserted(original, copy, k) ==
    /\ Len(copy) = Len(original) + 1
    /\ k \in 1..Len(original)
    /\ copy = insert_block(original, k, copy[k])

\* C10 (as claimed): valid_chain accepts every chain that satisfies the
\* validity relation, and rejects it after any change of one block's proof,
\* any change of one block's previous_hash, and any insertion of a block in
\* front of a block whose previous_hash is left as it was.
C10_EveryChangeDetected ==
    result.op = "valid_chain" =>
        /\ ValidityRelation(checked) => result.replaced
        /\ \A i \in 1..Len(chain) :
              (ProofChanged(chain, checked, i)
               \/ PreviousHashChanged(chain, checked, i)
               \/ Inserted(chain, checked, i))
              => ~result.replaced

\* C10 (amended): valid_chain accepts exactly the chains that satisfy the
\* validity relation.  Of a chain that satisfies it, valid_chain rejects every
\* copy with the proof of a block that has a successor changed, with the
\* previous_hash of a block changed if the chain has two blocks or more, or
\* with a block inserted in front of a block; a changed proof in the last
\* block is rejected exactly when it fails the puzzle set by the block before
\* it, and no change to the only block of a one-block chain is rejected.
C10_DetectedChanges ==
    result.op = "valid_chain" =>
        /\ ValidityRelation(chain)
        /\ result.exc = "none"
        /\ result.replaced <=> ValidityRelation(checked)
        /\ \A i \in 1..Len(chain) :
              /\ (ProofChanged(chain, checked, i) /\ i < Len(chain))
                     => ~result.replaced
              /\ (PreviousHashChanged(chain, checked, i) /\ Len(chain) >= 2)
                     => ~result.replaced
              /\ Inserted(chain, checked, i) => ~result.replaced
              /\ (ProofChanged(chain, checked, i) /\ i = Len(chain) /\ i >= 2)
                     => (result.replaced <=>
                             valid_proof(chain[i - 1].proof, checked[i].proof,
                                         hash(chain[i - 1])))
              /\ ((ProofChanged(chain, checked, i)
                   \/ PreviousHashChanged(chain, checked, i))
                  /\ Len(chain) = 1)
                     => result.replaced

\* C10 witness: a three-block chain whose middle block got another proof that
\* solves the puzzle of the block before it, and is rejected all the same
C10_Witness ==
    /\ result.op = "valid_chain"
    /\ Len(chain) = 3
    /\ ProofChanged(chain, checked, 2)
    /\ valid_proof(chain[1].proof, checked[2].proof, hash(chain[1]))
    /\ ~result.replaced

\* C12 (as claimed): in every reachable state the local chain has a block
\* and its first block carries the genesis sentinels, previous_hash "1" and
\* proof 100.
C12_GenesisFirst ==
    /\ chain # <<>>
    /\ chain[1].previous_hash = <<1>>
    /\ chain[1].proof = 100

\* C13 (as claimed): a registration request that is rejected for an invalid
\* address leaves the peer set, the chain and the pending pool as they were.
C13_RejectedRegistrationNoEffect ==
    [][(Handled("register_nodes") /\ result'.exc = "ValueError") =>
         /\ nodes' = nodes
         /\ chain' = chain
         /\ current_transactions' = current_transactions
      ]_vars

\* C18 (as claimed): after a resolve that completes with every registered
\* peer answering, the local chain has at least as many blocks as every valid
\* chain a registered peer serves.
C18_LongestValidWins ==
    [][\A t \in Threads :
         ( /\ Ends(t, "consensus")
           /\ Response(t).exc = "none"
           /\ \A p \in nodes : Answers(p) ) =>
         \A p \in nodes :
             Valid(served[p].chain) => Len(chain') >= Len(served[p].chain)
      ]_vars

\* C19 (as claimed): a resolve that follows a resolve, with the peers serving
\* what they served, returns false and leaves the local chain as it is,
\* whatever the order of its visit.
C19_ResolveIdempotent ==
    [][\A t \in Threads : Ends(t, "consensus") =>
         \A o \in Orders(nodes') :
             LET again == resolve_conflicts(
                              [chain |-> chain',
                               current_transactions |-> current_transactions',
                               nodes |-> nodes'], o, served')
             IN  /\ ~again.ret
                 /\ again.self.chain = chain'
      ]_vars

\* C20: no step of a resolve, whether the resolve replaces the chain, fails
\* or changes nothing, changes the pending pool, the peer set or what the
\* peers serve.
C20_ResolveFrame ==
    [][ResolveStep =>
         /\ current_transactions' = current_transactions
         /\ nodes' = nodes
         /\ served' = served
      ]_vars

\* C20 witness: a resolve replaced the chain while a transaction was pending
C20_Witness ==
    /\ result.op = "consensus"
    /\ result.replaced
    /\ current_transactions # <<>>
    /\ nodes = Peers

\* thread t takes the step that leaves from and reaches to
Steps(t, from, to) ==
    threads.local[t].pc = from /\ threads'.local[t].pc = to

\* C11: the proof the search returns for a block solves the puzzle that block
\* sets, no smaller non-negative integer does, and the chain, the pending
\* pool and the peer set are what they were when the search returns.
C11_FirstFit ==
    [][\A t \in Threads :
         Steps(t, "proof_of_work", "current_transactions") =>
           LET last == threads.local[t].last_block[1]
               p == threads'.local[t].proof
           IN  /\ valid_proof(last.proof, p, hash(last))
               /\ \A q \in 0..(p - 1) : ~valid_proof(last.proof, q, hash(last))
               /\ UNCHANGED <<chain, current_transactions, nodes>>
      ]_vars

\* C11 witness: a search has returned a proof that is not its first
\* candidate, for a block other than the genesis block
C11_Witness ==
    \E t \in Threads :
        /\ threads.local[t].pc = "current_transactions"
        /\ threads.local[t].proof > 0
        /\ threads.local[t].last_block[1].index > 1

\* C14: with one request served at a time, no step of a submission or of a
\* mine changes a block that is in the chain: the chain keeps every block it
\* has, field for field, and the transactions of a sealed block do not grow.
C14_SealedBlocksImmutable ==
    [][~ResolveStep =>
         /\ Len(chain') >= Len(chain)
         /\ \A k \in 1..Len(chain) : chain'[k] = chain[k]
      ]_vars

\* C14 witness: a transaction was submitted and answered after the node had
\* sealed a block of its own, and waits in the pool
C14_Witness ==
    \E t \in Threads :
        /\ threads.local[t].pc = "done"
        /\ threads.local[t].op = "new_transaction"
        /\ current_transactions = <<transaction(t)>>
        /\ threads.transactions[Len(chain)] # 0
        /\ chain[Len(chain)].transactions # <<>>

\* C15 (as claimed): under every interleaving of mine requests with mine
\* requests and with resolve, each block a mine appends has previous_hash
\* equal to the digest of the block that is last in the chain at the moment
\* of the append.
C15_NoStaleSeal ==
    [][\A t \in Threads :
         ( /\ \A u \in Threads : threads.local[u].op # "new_transaction"
           /\ Steps(t, "chain_append", "answer")
           /\ chain' # chain ) =>
           chain'[Len(chain')].previous_hash = hash(chain[Len(chain)])
      ]_vars

\* how many times x occurs in the sequence s
RECURSIVE occurrences(_, _)
occurrences(x, s) ==
    IF s = <<>> THEN 0
    ELSE (IF Head(s) = x THEN 1 ELSE 0) + occurrences(x, Tail(s))

\* how many times x occurs in the blocks of ch from block k on
RECURSIVE sealed(_, _, _)
sealed(x, ch, k) ==
    IF k > Len(ch) THEN 0
    ELSE occurrences(x, ch[k].transactions) + sealed(x, ch, k + 1)

\* no request is being served
Quiescent == \A u \in Threads : threads.local[u].pc \in {"idle", "done"}

\* C16 (as claimed): under every interleaving of submissions and mines, with
\* no resolve, a transaction whose submission was answered is never in two
\* places (the pending pool, a block of the chain), and when no request is
\* running it is in one: in the pool or in one block, not lost.
C16_PoolDrainedAtomically ==
    (\A u \in Threads : threads.local[u].op # "consensus") =>
        \A t \in Threads :
            ( /\ threads.local[t].pc = "done"
              /\ threads.local[t].op = "new_transaction" ) =>
                LET n == occurrences(transaction(t), current_transactions)
                             + sealed(transaction(t), chain, 1)
                IN  /\ n <= 1
                    /\ Quiescent => n = 1

\* C17 (as claimed): whatever is served between a submission and the seal
\* that takes its transaction, the block that holds the transaction has the
\* index the submission returned.
C17_ReturnedIndexHolds ==
    \A t \in Threads :
        ( /\ threads.local[t].pc = "done"
          /\ threads.local[t].op = "new_transaction" ) =>
            \A k \in 1..Len(chain) :
                occurrences(transaction(t), chain[k].transactions) > 0 =>
                    chain[k].index = threads.local[t].index

====
